---- MODULE Spec2Model ----
(***************************************************************************)
(* Let It Ride EV calculator (src/src/App.jsx): the hand classifier        *)
(* classify5, the enumeration handler computeEV, and the component's       *)
(* state (four card pickers, the stored result) with its handlers.         *)
(*                                                                         *)
(* A card is the two-character string rank+suit; it is modelled as the     *)
(* sequence of its characters, <<rank, suit>>, so that c[0] and c[1] of    *)
(* the source are c[1] and c[2] here.  The empty string '' is <<>>.        *)
(***************************************************************************)
EXTENDS Integers, Sequences, FiniteSets, TLC

VARIABLES
  cardA, cardB, cardC, board,  \* useState('') x 4: the selected cards
  result,                      \* useState(null): the stored result
  mounted,                     \* the component's last render committed
  download,                    \* the file last handed to the browser by downloadCSV
  pc,                          \* "idle", or "loop" while computeEV enumerates
  remaining, idx,              \* computeEV: the candidate array and the for-of position
  counts, evSum, breakdown,    \* computeEV: the accumulators
  final5, cat                  \* computeEV: the loop body's last hand and category

vars == <<cardA, cardB, cardC, board, result, mounted, download, pc,
          remaining, idx, counts, evSum, breakdown, final5, cat>>

(***************************************************************************)
(* Bounds of the model: how many cards of PickList the pickers offer.      *)
(***************************************************************************)
MaxPick == 9

MaxPickUI == 4

Range(s) == {s[k] : k \in DOMAIN s}

(***************************************************************************)
(* Module constants                                                        *)
(***************************************************************************)
RANKS == <<"2", "3", "4", "5", "6", "7", "8", "9", "T", "J", "Q", "K", "A">>

SUITS == <<"c", "d", "h", "s">>

\* Faulty variant of DECK: the two maps nested the other way round (suit-major)
DECK_suitMajor ==
  [k \in 1..(Len(RANKS) * Len(SUITS)) |->
     <<RANKS[((k - 1) % Len(RANKS)) + 1], SUITS[((k - 1) \div Len(RANKS)) + 1]>>]

\* RANKS.flatMap(r => SUITS.map(s => r + s)): rank-major, suit-minor
DECK ==
  [k \in 1..(Len(RANKS) * Len(SUITS)) |->
     <<RANKS[((k - 1) \div Len(SUITS)) + 1], SUITS[((k - 1) % Len(SUITS)) + 1]>>]

PAYTABLE ==
  [royal_flush |-> 1000, straight_flush |-> 200, four_kind |-> 50,
   full_house |-> 11, flush |-> 8, straight |-> 5, three_kind |-> 3,
   two_pair |-> 2, pair_10_or_better |-> 1, nothing |-> -1]

\* Faulty variant of CATEGORIES: the last entry left out
CATEGORIES_noNothing ==
  <<"royal_flush", "straight_flush", "four_kind", "full_house", "flush",
    "straight", "three_kind", "two_pair", "pair_10_or_better">>

CATEGORIES ==
  <<"royal_flush", "straight_flush", "four_kind", "full_house", "flush",
    "straight", "three_kind", "two_pair", "pair_10_or_better", "nothing">>

\* RANKS.indexOf(r): 0-based, -1 when absent
rankIndex(r) ==
  IF \E k \in DOMAIN RANKS : RANKS[k] = r
  THEN (CHOOSE k \in DOMAIN RANKS : RANKS[k] = r) - 1
  ELSE -1

(***************************************************************************)
(* JavaScript library behaviour used by classify5                          *)
(***************************************************************************)
RECURSIVE sortAscending(_)
\* Array.prototype.sort((a,b) => a-b) on numbers
sortAscending(s) ==
  IF Len(s) <= 1 THEN s
  ELSE LET m == CHOOSE k \in DOMAIN s : \A j \in DOMAIN s : s[k] <= s[j]
           rest == [j \in 1..(Len(s) - 1) |-> IF j < m THEN s[j] ELSE s[j + 1]]
       IN <<s[m]>> \o sortAscending(rest)

RECURSIVE sortDescending(_)
\* Array.prototype.sort((a,b) => b-a) on numbers
sortDescending(s) ==
  IF Len(s) <= 1 THEN s
  ELSE LET m == CHOOSE k \in DOMAIN s : \A j \in DOMAIN s : s[k] >= s[j]
           rest == [j \in 1..(Len(s) - 1) |-> IF j < m THEN s[j] ELSE s[j + 1]]
       IN <<s[m]>> \o sortDescending(rest)

RECURSIVE insertionOrder(_)
\* the distinct elements of s in order of first occurrence
insertionOrder(s) ==
  IF Len(s) = 0 THEN <<>>
  ELSE LET init == insertionOrder(SubSeq(s, 1, Len(s) - 1))
           last == s[Len(s)]
       IN IF last \in Range(init) THEN init ELSE Append(init, last)

\* The rank characters that are canonical array indices ("2".."9"), ascending.
\* An object lists such keys first, in ascending numeric order, and then its
\* other string keys ("T","J","Q","K","A") in insertion order.
IndexKeys == <<"2", "3", "4", "5", "6", "7", "8", "9">>

\* Object.keys(counts) after ranks.forEach(r => counts[r] = (counts[r]||0)+1)
objectKeys(ranks) ==
  SelectSeq(IndexKeys, LAMBDA k : k \in Range(ranks))
    \o SelectSeq(insertionOrder(ranks), LAMBDA k : k \notin Range(IndexKeys))

\* counts[r] after the forEach
rankCount(ranks, r) == Cardinality({k \in DOMAIN ranks : ranks[k] = r})

\* arr[k0] === v for a 0-based index k0 (undefined, past the end, equals no number)
elemIs(arr, k0, v) == (k0 + 1) \in DOMAIN arr /\ arr[k0 + 1] = v

(***************************************************************************)
(* classify5                                                               *)
(***************************************************************************)
\* Faulty variant of isStraightOf: the wheel branch left out
isStraightOf_noWheel(vals) ==
  Len(vals) = 5 /\ vals[5] - vals[1] = 4 /\ Cardinality(Range(vals)) = 5

\* Faulty variant of isStraightOf: the distinctness test left out
isStraightOf_noDistinct(vals) ==
  IF Len(vals) = 5 /\ elemIs(vals, 0, 0) /\ elemIs(vals, 1, 1) /\ elemIs(vals, 2, 2)
       /\ elemIs(vals, 3, 3) /\ elemIs(vals, 4, 12)
  THEN TRUE
  ELSE Len(vals) = 5 /\ vals[5] - vals[1] = 4

\* lines 46-52: the wheel, or max - min = 4 with 5 distinct values
isStraightOf(vals) ==
  IF Len(vals) = 5 /\ elemIs(vals, 0, 0) /\ elemIs(vals, 1, 1) /\ elemIs(vals, 2, 2)
       /\ elemIs(vals, 3, 3) /\ elemIs(vals, 4, 12)
  THEN TRUE
  ELSE Len(vals) = 5 /\ vals[5] - vals[1] = 4 /\ Cardinality(Range(vals)) = 5

\* Faulty variant of straightFlushCategory: royal for any straight flush with an ace
straightFlushCategory_aceOnly(ranks) ==
  LET ranksSet == Range(ranks)
  IN IF Cardinality(ranksSet) = 5 /\ "A" \in ranksSet
     THEN "royal_flush"
     ELSE "straight_flush"

\* lines 55-59: inside if (isStraight && isFlush)
straightFlushCategory(ranks) ==
  LET ranksSet == Range(ranks)
  IN IF Cardinality(ranksSet) = 5 /\ "T" \in ranksSet /\ "J" \in ranksSet
          /\ "Q" \in ranksSet /\ "K" \in ranksSet /\ "A" \in ranksSet
     THEN "royal_flush"
     ELSE "straight_flush"

\* Faulty variant of pairCategory: the ace left out of the paying ranks
pairCategory_noAce(ranks) ==
  LET keys == objectKeys(ranks)
      found == SelectSeq(keys, LAMBDA k : rankCount(ranks, k) = 2)
  IN IF Len(found) > 0 /\ found[1] \in {"T", "J", "Q", "K"}
     THEN "pair_10_or_better"
     ELSE "nothing"

\* lines 68-70: inside if (freqs[0] === 2)
pairCategory(ranks) ==
  LET keys == objectKeys(ranks)
      found == SelectSeq(keys, LAMBDA k : rankCount(ranks, k) = 2)
  IN IF Len(found) > 0 /\ found[1] \in {"T", "J", "Q", "K", "A"}
     THEN "pair_10_or_better"
     ELSE "nothing"

classify5(cards) ==
  LET ranks == [k \in DOMAIN cards |-> cards[k][1]]
      suits == [k \in DOMAIN cards |-> cards[k][2]]
      keys == objectKeys(ranks)
      freqs == sortDescending([k \in DOMAIN keys |-> rankCount(ranks, keys[k])])
      isFlush == Cardinality(Range(suits)) = 1
      vals == sortAscending([k \in DOMAIN ranks |-> rankIndex(ranks[k])])
      isStraight == isStraightOf(vals)
  IN IF isStraight /\ isFlush THEN straightFlushCategory(ranks)
     ELSE IF elemIs(freqs, 0, 4) THEN "four_kind"
     ELSE IF elemIs(freqs, 0, 3) /\ elemIs(freqs, 1, 2) THEN "full_house"
     ELSE IF isFlush THEN "flush"
     ELSE IF isStraight THEN "straight"
     ELSE IF elemIs(freqs, 0, 3) THEN "three_kind"
     ELSE IF elemIs(freqs, 0, 2) /\ elemIs(freqs, 1, 2) THEN "two_pair"
     ELSE IF elemIs(freqs, 0, 2) THEN pairCategory(ranks)
     ELSE "nothing"

(***************************************************************************)
(* The component: state, render, handlers                                  *)
(***************************************************************************)
\* the cards offered to the pickers in this model, in the order the bounds admit them
PickList ==
  <<<<"A", "h">>, <<"K", "h">>, <<"Q", "h">>, <<"J", "h">>, <<"2", "h">>,
    <<"3", "h">>, <<"4", "h">>, <<"2", "c">>, <<"2", "d">>, <<"5", "c">>,
    <<"9", "s">>, <<"T", "d">>>>

Picks(n) == {PickList[k] : k \in 1..n}

\* the empty string: an unselected picker
NoCard == <<>>

\* useState(null)
NoResult == [kind |-> "null"]

ErrIncomplete ==
  [kind |-> "object",
   error |-> "Please select all 3 hole cards and the shown community card."]

ErrDuplicate ==
  [kind |-> "object",
   error |-> "Duplicate card detected. Please choose distinct cards."]

NoDownload == [status |-> "none"]

\* Object.fromEntries(CATEGORIES.map(c => [c, 0]))
zeroCounts == [c \in Range(CATEGORIES) |-> 0]

\* !result
falsy(res) == res.kind = "null"

\* res.<field> is undefined
lacks(res, fld) == fld \notin DOMAIN res

\* Faulty variant of renderThrows: a render that tolerates a result without probs
renderThrows_never(res) == FALSE

\* lines 139-141: chartData reads result.probs[cat] whenever result is truthy,
\* which throws a TypeError when result.probs is undefined (the || 0 guards
\* only an undefined entry of probs).  A render that throws does not commit:
\* the component is taken down with no button or handler bound to that state,
\* which "mounted" records; lines 193-195 are never reached with an error.
renderThrows(res) == ~falsy(res) /\ lacks(res, "probs")

\* line 89: !cardA || !cardB || !cardC || !board
incomplete(a, b, c, d) == a = NoCard \/ b = NoCard \/ c = NoCard \/ d = NoCard

\* Faulty variant of duplicated: the size compared with 3
duplicated_offByOne(a, b, c, d) == Cardinality({a, b, c, d}) < 3

\* lines 93-94: new Set([cardA, cardB, cardC, board]).size < 4
duplicated(a, b, c, d) == Cardinality({a, b, c, d}) < 4

\* Faulty variant of remainingOf: the shown card left out of the known set
remainingOf_ignoresBoard(a, b, c, d) == SelectSeq(DECK, LAMBDA x : x \notin {a, b, c})

\* line 99: DECK.filter(c => !known.has(c))
remainingOf(a, b, c, d) == SelectSeq(DECK, LAMBDA x : x \notin {a, b, c, d})

\* Faulty variant of payoutOf: a losing hand counted as 0 instead of -1
payoutOf_lossAsZero(category) == IF category = "nothing" THEN 0 ELSE PAYTABLE[category]

\* line 108: PAYTABLE[cat]
payoutOf(category) == PAYTABLE[category]

\* line 85: an option of a picker is disabled while any picker holds it
disabledOption(option) == option \in {cardA, cardB, cardC, board}

\* x.toFixed(6) of the quotient num/den, as a whole number of millionths
\* (the nearest; no quotient of this program lies half-way between two)
toFixed6(num, den) ==
  LET mag == IF num < 0 THEN -num ELSE num
      n == (2 * mag * 1000000 + den) \div (2 * den)
  IN IF num < 0 THEN -n ELSE n

idleLocals ==
  /\ remaining' = <<>>
  /\ idx' = 0
  /\ counts' = zeroCounts
  /\ evSum' = 0
  /\ breakdown' = <<>>
  /\ final5' = <<>>
  /\ cat' = ""

Init ==
  /\ cardA = NoCard
  /\ cardB = NoCard
  /\ cardC = NoCard
  /\ board = NoCard
  /\ result = NoResult
  /\ mounted = TRUE
  /\ download = NoDownload
  /\ pc = "idle"
  /\ remaining = <<>>
  /\ idx = 0
  /\ counts = zeroCounts
  /\ evSum = 0
  /\ breakdown = <<>>
  /\ final5 = <<>>
  /\ cat = ""

\* a handler runs only on a mounted component and never during another handler
ready == mounted /\ pc = "idle"

\* a picker's onChange: the user chose an enabled option other than the current one
selectable(current, v) ==
  /\ v # current
  /\ v = NoCard \/ ~disabledOption(v)

\* line 151: onChange={e=>setCardA(e.target.value)}
SetCardA ==
  /\ ready
  /\ \E v \in Picks(MaxPickUI) \cup {NoCard} :
       /\ selectable(cardA, v)
       /\ cardA' = v
  /\ UNCHANGED <<cardB, cardC, board, result, mounted, download, pc,
                 remaining, idx, counts, evSum, breakdown, final5, cat>>

\* line 160
SetCardB ==
  /\ ready
  /\ \E v \in Picks(MaxPickUI) \cup {NoCard} :
       /\ selectable(cardB, v)
       /\ cardB' = v
  /\ UNCHANGED <<cardA, cardC, board, result, mounted, download, pc,
                 remaining, idx, counts, evSum, breakdown, final5, cat>>

\* line 169
SetCardC ==
  /\ ready
  /\ \E v \in Picks(MaxPickUI) \cup {NoCard} :
       /\ selectable(cardC, v)
       /\ cardC' = v
  /\ UNCHANGED <<cardA, cardB, board, result, mounted, download, pc,
                 remaining, idx, counts, evSum, breakdown, final5, cat>>

\* line 178
SetBoard ==
  /\ ready
  /\ \E v \in Picks(MaxPickUI) \cup {NoCard} :
       /\ selectable(board, v)
       /\ board' = v
  /\ UNCHANGED <<cardA, cardB, cardC, result, mounted, download, pc,
                 remaining, idx, counts, evSum, breakdown, final5, cat>>

\* lines 88-102: computeEV up to the loop; a validation failure stores the
\* error object and returns, and the render of that state follows
ComputeEV ==
  /\ ready
  /\ IF incomplete(cardA, cardB, cardC, board)
     THEN /\ result' = ErrIncomplete
          /\ mounted' = ~renderThrows(result')
          /\ UNCHANGED <<pc, remaining, idx, counts, evSum, breakdown, final5, cat>>
     ELSE IF duplicated(cardA, cardB, cardC, board)
     THEN /\ result' = ErrDuplicate
          /\ mounted' = ~renderThrows(result')
          /\ UNCHANGED <<pc, remaining, idx, counts, evSum, breakdown, final5, cat>>
     ELSE /\ pc' = "loop"
          /\ remaining' = remainingOf(cardA, cardB, cardC, board)
          /\ idx' = 1
          /\ counts' = zeroCounts
          /\ evSum' = 0
          /\ breakdown' = <<>>
          /\ UNCHANGED <<result, mounted, final5, cat>>
  /\ UNCHANGED <<cardA, cardB, cardC, board, download>>

\* lines 104-111: one iteration of for (const finalCard of remaining)
ComputeStep ==
  /\ pc = "loop"
  /\ idx <= Len(remaining)
  /\ final5' = <<cardA, cardB, cardC, board, remaining[idx]>>
  /\ cat' = classify5(final5')
  /\ counts' = [counts EXCEPT ![cat'] = @ + 1]
  /\ evSum' = evSum + payoutOf(cat')
  /\ breakdown' = Append(breakdown,
                         [finalCard |-> remaining[idx], cat |-> cat', payout |-> payoutOf(cat')])
  /\ idx' = idx + 1
  /\ UNCHANGED <<cardA, cardB, cardC, board, result, mounted, download, pc, remaining>>

\* lines 113-117: after the loop; ev and the probabilities are kept as exact
\* quotients (numerator, denominator); the render of the new state follows
ComputeReturn ==
  /\ pc = "loop"
  /\ idx > Len(remaining)
  /\ LET total == Len(remaining)
         ev == [num |-> evSum, den |-> total]
         probs == [c \in Range(CATEGORIES) |-> [num |-> counts[c], den |-> total]]
     IN result' = [kind |-> "object", ev |-> ev, probs |-> probs, counts |-> counts,
                   total |-> total, breakdown |-> breakdown]
  /\ mounted' = ~renderThrows(result')
  /\ pc' = "idle"
  /\ idleLocals
  /\ UNCHANGED <<cardA, cardB, cardC, board, download>>

\* line 189: the Reset button
Reset ==
  /\ ready
  /\ cardA' = NoCard
  /\ cardB' = NoCard
  /\ cardC' = NoCard
  /\ board' = NoCard
  /\ result' = NoResult
  /\ mounted' = ~renderThrows(result')
  /\ UNCHANGED <<download, pc, remaining, idx, counts, evSum, breakdown, final5, cat>>

\* lines 124-128: the rows of the CSV, or the TypeError of reading a property
\* of undefined (result.ev.toFixed, result.probs[cat], result.counts[cat])
csvOf(res) ==
  IF lacks(res, "ev") \/ lacks(res, "probs") \/ lacks(res, "counts")
  THEN [status |-> "TypeError"]
  ELSE [status |-> "saved",
        rows |-> <<<<"EV_per_unit", toFixed6(res.ev.num, res.ev.den)>>>>
                 \o [k \in 1..(2 * Len(CATEGORIES)) |->
                       LET c == CATEGORIES[(k + 1) \div 2]
                       IN IF k % 2 = 1
                          THEN <<"P_" \o c, toFixed6(res.probs[c].num, res.probs[c].den)>>
                          ELSE <<"Count_" \o c, res.counts[c]>>]]

\* line 190: the Download CSV button, disabled={!result}; lines 120-137
DownloadCSV ==
  /\ ready
  /\ ~falsy(result)
  /\ download' = IF falsy(result) THEN download ELSE csvOf(result)
  /\ UNCHANGED <<cardA, cardB, cardC, board, result, mounted, pc,
                 remaining, idx, counts, evSum, breakdown, final5, cat>>

Next ==
  \/ SetCardA
  \/ SetCardB
  \/ SetCardC
  \/ SetBoard
  \/ ComputeEV
  \/ ComputeStep
  \/ ComputeReturn
  \/ Reset
  \/ DownloadCSV

\* the whole component, driven through its pickers and buttons
Spec == Init /\ [][Next]_vars

(***************************************************************************)
(* computeEV as a function of the four selected values: they are drawn     *)
(* from the picks and the empty string without the pickers' disabling of   *)
(* taken options, so that every input of its validation occurs.            *)
(***************************************************************************)
InitEV ==
  /\ cardA \in Picks(MaxPick) \cup {NoCard}
  /\ cardB \in Picks(MaxPick) \cup {NoCard}
  /\ cardC \in Picks(MaxPick) \cup {NoCard}
  /\ board \in Picks(MaxPick) \cup {NoCard}
  /\ result = NoResult
  /\ mounted = TRUE
  /\ download = NoDownload
  /\ pc = "idle"
  /\ remaining = <<>>
  /\ idx = 0
  /\ counts = zeroCounts
  /\ evSum = 0
  /\ breakdown = <<>>
  /\ final5 = <<>>
  /\ cat = ""

NextEV ==
  \/ ComputeEV
  \/ ComputeStep
  \/ ComputeReturn

SpecEV == InitEV /\ [][NextEV]_vars

(***************************************************************************)
(* Reference notions the claims are stated with, written from the rules    *)
(* of the game and not from the code.                                      *)
(***************************************************************************)
RefRankValue ==
  "2" :> 0 @@ "3" :> 1 @@ "4" :> 2 @@ "5" :> 3 @@ "6" :> 4 @@ "7" :> 5 @@ "8" :> 6
    @@ "9" :> 7 @@ "T" :> 8 @@ "J" :> 9 @@ "Q" :> 10 @@ "K" :> 11 @@ "A" :> 12

RefSuitValue == "c" :> 0 @@ "d" :> 1 @@ "h" :> 2 @@ "s" :> 3

RefAllCards == {<<r, s>> : r \in DOMAIN RefRankValue, s \in DOMAIN RefSuitValue}

RefCategories ==
  {"royal_flush", "straight_flush", "four_kind", "full_house", "flush",
   "straight", "three_kind", "two_pair", "pair_10_or_better", "nothing"}

\* position of a card in the canonical enumeration: rank-major, suit-minor
RefCardKey(c) == 4 * RefRankValue[c[1]] + RefSuitValue[c[2]]

RefRankSet(h) == {h[k][1] : k \in DOMAIN h}

RefValues(h) == {RefRankValue[h[k][1]] : k \in DOMAIN h}

RefFlush(h) == \A j, k \in DOMAIN h : h[j][2] = h[k][2]

RefWheel(h) == RefRankSet(h) = {"A", "2", "3", "4", "5"}

RefRoyalRanks(h) == RefRankSet(h) = {"T", "J", "Q", "K", "A"}

RefStraight(h) ==
  LET V == RefValues(h)
  IN \/ Cardinality(V) = 5 /\ \E lo \in 0..8 : V = lo..(lo + 4)
     \/ V = {0, 1, 2, 3, 12}

\* five pairwise-distinct cards of the 52-card deck
RefHand(h) ==
  /\ Len(h) = 5
  /\ \A k \in 1..5 : h[k] \in RefAllCards
  /\ \A j, k \in 1..5 : j # k => h[j] # h[k]

\* the four selected values are present and pairwise distinct
RefValidInput ==
  /\ \A c \in {cardA, cardB, cardC, board} : c \in RefAllCards
  /\ Cardinality({cardA, cardB, cardC, board}) = 4

RefAnyAbsent == cardA = <<>> \/ cardB = <<>> \/ cardC = <<>> \/ board = <<>>

RECURSIVE RefSum(_, _)
\* the sum of f over the finite set S of its arguments
RefSum(f, S) ==
  IF S = {} THEN 0
  ELSE LET x == CHOOSE y \in S : TRUE IN f[x] + RefSum(f, S \ {x})

\* exactly one pair and three other ranks, no flush
RefOnePair(h) == Cardinality(RefRankSet(h)) = 4 /\ ~RefFlush(h)

\* the rank that occurs twice
RefPairedRank(h) ==
  CHOOSE r \in RefRankSet(h) : Cardinality({k \in DOMAIN h : h[k][1] = r}) = 2

\* b lists every card outside known once, in canonical order
RefCanonical(b, known) ==
  /\ {b[k].finalCard : k \in DOMAIN b} = RefAllCards \ known
  /\ \A k \in DOMAIN b :
       k > 1 => RefCardKey(b[k - 1].finalCard) < RefCardKey(b[k].finalCard)

\* the loop body has run: final5 and cat are those of the last candidate
Classified == pc = "loop" /\ idx > 1

\* the stored result is a computed one
Computed == result.kind = "object" /\ "ev" \in DOMAIN result

(***************************************************************************)
(* Claims                                                                  *)
(***************************************************************************)

\* C1: classify5 is total over hands of 5 distinct cards and every value it
\* returns is one of the 10 names of CATEGORIES.
C1_ClassifyTotal ==
  Classified =>
    /\ RefHand(final5)
    /\ cat \in Range(CATEGORIES)
    /\ cat \in RefCategories
    /\ breakdown[idx - 1].cat \in Range(CATEGORIES)

\* a hand that falls through the whole ladder has been classified
C1_Witness ==
  /\ Classified
  /\ cat = "nothing"
  /\ Cardinality(RefRankSet(final5)) = 5
  /\ {"straight", "straight_flush", "flush"} \subseteq {breakdown[k].cat : k \in DOMAIN breakdown}

\* C2: on valid input the candidate pool is 48 cards, none of them known;
\* result.total is 48 and the 10 counts lie in 0..48 and sum to 48.
C2_PoolAndCounts ==
  /\ pc = "loop" =>
       /\ RefValidInput
       /\ Len(remaining) = 48
       /\ Range(remaining) = RefAllCards \ {cardA, cardB, cardC, board}
       /\ RefSum(counts, RefCategories) = idx - 1
  /\ Computed =>
       /\ result.total = 48
       /\ DOMAIN result.counts = RefCategories
       /\ \A c \in RefCategories : result.counts[c] \in 0..48
       /\ RefSum(result.counts, RefCategories) = 48

C2_Witness ==
  /\ pc = "idle"
  /\ RefValidInput
  /\ Computed
  /\ result.total = 48
  /\ RefSum(result.counts, RefCategories) = 48

\* C3: evSum is, after every iteration, the sum of counts[c] * PAYTABLE[c]
\* (and the sum of the payouts of the candidates processed so far), and the
\* returned EV is that sum at loop exit divided by 48.
C3_EvIsWeightedSum ==
  /\ pc = "loop" =>
       evSum = RefSum([c \in RefCategories |-> counts[c] * PAYTABLE[c]], RefCategories)
  /\ (pc = "loop" /\ idx > Len(remaining)) =>
       evSum = RefSum([k \in DOMAIN breakdown |-> PAYTABLE[breakdown[k].cat]],
                      DOMAIN breakdown)
  /\ Computed =>
       /\ result.ev.den = 48
       /\ result.ev.num =
            RefSum([c \in RefCategories |-> result.counts[c] * PAYTABLE[c]], RefCategories)

\* a result whose EV counts winning and losing candidates
C3_Witness ==
  /\ Computed
  /\ result.counts["nothing"] > 0
  /\ result.counts["nothing"] < 48
  /\ result.ev.num # -48

\* C4: royal_flush exactly for a straight that is a flush with ranks
\* {T,J,Q,K,A}; any other straight that is a flush is straight_flush; with
\* Ah,Kh,Qh,Jh known, Th gives royal_flush and 2c gives nothing.
C4_RoyalFlush ==
  Classified =>
    /\ cat = "royal_flush" <=>
         (RefRoyalRanks(final5) /\ RefFlush(final5) /\ RefStraight(final5))
    /\ (RefFlush(final5) /\ ~RefRoyalRanks(final5) /\ RefStraight(final5))
         => cat = "straight_flush"
    /\ final5 = <<<<"A", "h">>, <<"K", "h">>, <<"Q", "h">>, <<"J", "h">>, <<"T", "h">>>>
         => cat = "royal_flush"
    /\ final5 = <<<<"A", "h">>, <<"K", "h">>, <<"Q", "h">>, <<"J", "h">>, <<"2", "c">>>>
         => cat = "nothing"

C4_Witness ==
  /\ Classified
  /\ final5 = <<<<"A", "h">>, <<"K", "h">>, <<"Q", "h">>, <<"J", "h">>, <<"T", "h">>>>
  /\ cat = "royal_flush"
  /\ breakdown[1] = [finalCard |-> <<"2", "c">>, cat |-> "nothing", payout |-> -1]

\* C5: a wheel (ranks A,2,3,4,5) is straight_flush in one suit and straight
\* otherwise, never royal_flush or nothing.
C5_Wheel ==
  (Classified /\ RefWheel(final5)) =>
    /\ cat = (IF RefFlush(final5) THEN "straight_flush" ELSE "straight")
    /\ cat \notin {"royal_flush", "nothing"}

\* a mixed-suit wheel was classified after the one-suit wheel of the same selection
C5_Witness ==
  /\ Classified
  /\ RefWheel(final5)
  /\ ~RefFlush(final5)
  /\ cat = "straight"
  /\ \E k \in DOMAIN breakdown :
       /\ breakdown[k].cat = "straight_flush"
       /\ breakdown[k].finalCard[1] = "5"

C7_ValidationErrors ==
  /\ RefAnyAbsent =>
       /\ result \in {NoResult, ErrIncomplete}
       /\ pc = "idle" /\ breakdown = <<>> /\ cat = ""
  /\ (~RefAnyAbsent /\ ~RefValidInput) =>
       /\ result \in {NoResult, ErrDuplicate}
       /\ pc = "idle" /\ breakdown = <<>> /\ cat = ""
  /\ RefValidInput => "error" \notin DOMAIN result
  /\ "error" \in DOMAIN result => DOMAIN result = {"kind", "error"}
  /\ ErrIncomplete # ErrDuplicate

\* the duplicate-card error was stored for a selection holding Ah twice
C7_Witness ==
  /\ cardA = <<"A", "h">>
  /\ cardB = <<"A", "h">>
  /\ cardC = <<"2", "c">>
  /\ board = <<"2", "d">>
  /\ result = ErrDuplicate

\* C8: the breakdown holds one record per candidate, 48 in all, in the
\* deck's canonical order with the known cards skipped; each record's
\* category is classify5 of the known cards plus the candidate and its
\* payout is PAYTABLE of that category.
C8_Breakdown ==
  /\ Classified =>
       /\ Len(breakdown) = idx - 1
       /\ breakdown[idx - 1].finalCard = final5[5]
       /\ breakdown[idx - 1].finalCard \notin {cardA, cardB, cardC, board}
       /\ breakdown[idx - 1].cat = cat
       /\ breakdown[idx - 1].payout = PAYTABLE[cat]
       /\ idx > 2 => RefCardKey(breakdown[idx - 2].finalCard)
                       < RefCardKey(breakdown[idx - 1].finalCard)
  /\ (Computed /\ pc = "idle") =>
       /\ Len(result.breakdown) = 48
       /\ RefCanonical(result.breakdown, {cardA, cardB, cardC, board})
       /\ \A k \in DOMAIN result.breakdown :
            LET rec == result.breakdown[k]
            IN /\ rec.cat = classify5(<<cardA, cardB, cardC, board, rec.finalCard>>)
               /\ rec.payout = PAYTABLE[rec.cat]

C8_Witness ==
  /\ Computed
  /\ pc = "idle"
  /\ Len(result.breakdown) = 48
  /\ result.breakdown[1].finalCard = <<"2", "s">>
  /\ result.breakdown[48].finalCard = <<"A", "s">>

\* C9: isStraight is true exactly when the five rank values are five
\* distinct consecutive values or the ranks are {2,3,4,5,A}; so a hand that
\* is not a flush is a straight exactly then, J,Q,K,A,2 and Q,K,A,2,3 are no
\* straights, and no hand with a repeated rank is one.
C9_StraightDetection ==
  Classified =>
    LET vals == sortAscending([k \in DOMAIN final5 |-> rankIndex(final5[k][1])])
    IN /\ IF RefStraight(final5)
          THEN /\ isStraightOf(vals)
               /\ cat \in {"royal_flush", "straight_flush", "straight"}
               /\ ~RefFlush(final5) => cat = "straight"
          ELSE /\ ~isStraightOf(vals)
               /\ cat \notin {"royal_flush", "straight_flush", "straight"}
       /\ RefRankSet(final5) \in {{"J", "Q", "K", "A", "2"}, {"Q", "K", "A", "2", "3"}}
            => cat \notin {"royal_flush", "straight_flush", "straight"}
       /\ Cardinality(RefRankSet(final5)) < 5 => ~isStraightOf(vals)

\* a repeated rank with max - min = 4 was classified after a wrap-around set
C9_Witness ==
  /\ Classified
  /\ RefValues(final5) = {0, 1, 2, 4}
  /\ cat = "nothing"
  /\ cardA = <<"2", "h">>
  /\ cardB = <<"2", "c">>

\* C10: downloadCSV never serializes an error result: whenever the Download
\* CSV button is offered enabled, the stored result holds ev, probs and
\* counts, and no download has ended in the TypeError of reading them.
C10_DownloadNeverSeesError ==
  /\ (mounted /\ ~falsy(result)) =>
       /\ "error" \notin DOMAIN result
       /\ {"ev", "probs", "counts"} \subseteq DOMAIN result
  /\ download.status # "TypeError"

\* a summary was saved and the selection was then emptied, the result kept
C10_Witness ==
  /\ download.status = "saved"
  /\ Len(download.rows) = 21
  /\ mounted
  /\ Computed
  /\ cardA = <<>>

====
